---- MODULE Spec2Model ----
(***************************************************************************)
(* Model of the Acad-Assessment-Test backend: the submit_exam intake       *)
(* handler, the exam/question/course handlers it depends on, and the       *)
(* spaCy grading service (grade_submission / grade_answer).                *)
(*                                                                         *)
(* Numbers.  Marks are Decimal(6,2) columns: the model keeps them in       *)
(* hundredths (cents).  Scores are floats in [0,1]: the model keeps them   *)
(* as exact fractions <<num, den>> (den > 0), similarities in tenths.      *)
(* Text.  A text is represented by what the language model reports about   *)
(* it: its similarity to each keyword, the number of its tokens matching   *)
(* a keyword, its similarity to the expected answer, the expected          *)
(* concepts it covers and whether its length ratio lies in [0.5, 2.0].     *)
(***************************************************************************)
EXTENDS Integers, Sequences, FiniteSets, TLC

VARIABLES courses, enrollments, exams, questions, submissions, answers,
          response, call, redis, now, request, pc

vars == <<courses, enrollments, exams, questions, submissions, answers,
          response, call, redis, now, request, pc>>

(* ------------------------------ bounds --------------------------------- *)

MaxMarks == 2
MaxTotal == 3
MaxKw == 2
MaxAnswers == 2

Concepts == {"c1", "c2"}
KwSims == {-2, 6, 10}
ContentSims == {-2, 5, 10}
Hits == {0, 2}
QIds == {"q1", "q2"}
Students == {"s1", "s2"}
Teachers == {"t1"}
Users == Students \cup Teachers
\* The users whose requests the HTTP specification enumerates.
Actors == {"s1", "t1"}
\* Enrollment.STATUS_CHOICES
EnrollmentStatuses == {"active", "completed", "dropped"}

NoRow == [absent |-> TRUE]

\* No request body in flight; no concurrent request in progress.
NoRequest == [op |-> "none"]
NoRequests == <<>>

\* The access tokens requests carry, and the instant each expires ('exp').
AccessTokens == {"a1", "a2"}
TokenExpiry == [t \in AccessTokens |-> IF t = "a1" THEN 1 ELSE 2]

\* The Redis keys of the blacklist; a key maps to the instant its entry
\* expires, 0 when it was never set.
BlacklistKeys == {<<"jti", "a1">>, <<"hash", "a2">>}
EmptyStore == [k \in BlacklistKeys |-> 0]

(* ----------------------------- arithmetic ------------------------------ *)

\* round(x, 2) / Decimal.quantize: n/d rounded to the nearest integer, ties to even.
RoundHalfEven(n, d) ==
    LET q == n \div d
        r == n % d
    IN  IF 2 * r > d THEN q + 1
        ELSE IF 2 * r < d THEN q
        ELSE IF q % 2 = 0 THEN q ELSE q + 1

RECURSIVE SumSeq(_)
SumSeq(s) == IF s = <<>> THEN 0 ELSE Head(s) + SumSeq(Tail(s))

\* a >= b for fractions.
FracGE(a, b) == a[1] * b[2] >= b[1] * a[2]
FracLT(a, b) == ~FracGE(a, b)

\* Sequences over S of length at most n.
SeqsUpTo(S, n) == UNION {[1..k -> S] : k \in 0..n}

Range(s) == {s[i] : i \in DOMAIN s}

(* ------------------------------- strings ------------------------------- *)

\* A str is the sequence of its characters.  The characters: white space,
\* a letter in lower case and the same letter in upper case.
Characters == {" ", "a", "A"}
MaxLen == 2
Strings == SeqsUpTo(Characters, MaxLen)

\* str.lower()
lower(s) == [i \in DOMAIN s |-> IF s[i] = "A" THEN "a" ELSE s[i]]

RECURSIVE lstrip(_)
lstrip(s) == IF s # <<>> /\ Head(s) = " " THEN lstrip(Tail(s)) ELSE s

RECURSIVE rstrip(_)
rstrip(s) == IF s # <<>> /\ s[Len(s)] = " " THEN rstrip(SubSeq(s, 1, Len(s) - 1)) ELSE s

\* A strip that leaves trailing white space in place.
LeadingStripped(s) == lstrip(s)

\* str.strip(): leading and trailing white space removed.
strip(s) == rstrip(lstrip(s))

\* The keywords the questions of the model carry.
k1 == <<"a">>
k2 == <<"a", "a">>
Keywords == {k1, k2}

(* ------------------- SpacyGradingService: constants -------------------- *)

keyword_weight == 4
content_weight == 4
completeness_weight == 2
similarity_threshold == 6
max_keywords == 8

(* ------------------- SpacyGradingService: scorers ---------------------- *)

\* _extract_keywords_nlp: the keywords the language model extracts from the
\* expected answer, duplicates removed, cut to max_keywords.
_extract_keywords_nlp(expected) ==
    SubSeq(expected.extracted, 1,
           IF Len(expected.extracted) < max_keywords
           THEN Len(expected.extracted) ELSE max_keywords)

\* One keyword of the loop of _calculate_keyword_similarity: <<matched, similarity>>
\* added by this keyword.  Above the threshold the similarity is added;
\* otherwise the first token with the keyword's lemma (or containing it)
\* adds 0.8 and the token loop breaks.
KeywordMatch(text, kw) ==
    IF text.sim[kw] >= similarity_threshold THEN <<1, text.sim[kw]>>
    ELSE IF text.hits[kw] > 0 THEN <<1, 8>>
    ELSE <<0, 0>>

RECURSIVE KeywordTotals(_, _)
KeywordTotals(text, kws) ==
    IF kws = <<>> THEN <<0, 0>>
    ELSE LET h == KeywordMatch(text, Head(kws))
             t == KeywordTotals(text, Tail(kws))
         IN  <<h[1] + t[1], h[2] + t[2]>>

\* _calculate_keyword_similarity: 0.7 without keywords, else
\* (match_rate + avg_similarity) / 2 with both divided by len(keywords).
_calculate_keyword_similarity(text, kws) ==
    IF kws = <<>> THEN <<7, 10>>
    ELSE LET tot == KeywordTotals(text, kws)
             matched_keywords == tot[1]
             total_similarity == tot[2]
             n == Len(kws)
         IN  IF matched_keywords > 0
             THEN <<matched_keywords * 10 + total_similarity, 20 * n>>
             ELSE <<matched_keywords * 10, 20 * n>>

\* The similarity as the language model reports it, not normalized.
RawContentSimilarity(text) == <<text.csim, 10>>

\* _calculate_content_similarity: max(0, min(1, similarity)).
_calculate_content_similarity(text) ==
    IF text.csim < 0 THEN <<0, 10>>
    ELSE IF text.csim > 10 THEN <<10, 10>>
    ELSE <<text.csim, 10>>

\* _calculate_completeness: 0.7 without expected concepts, else the mean of
\* the covered share and the length score (1.0 inside [0.5, 2.0], else 0.7).
_calculate_completeness(text, expected) ==
    IF expected.concepts = {} THEN <<7, 10>>
    ELSE LET m == Cardinality(expected.concepts)
             covered_concepts == Cardinality(expected.concepts \cap text.covers)
             length_score == IF text.lenOk THEN 10 ELSE 7
         IN  <<covered_concepts * 10 + length_score * m, 20 * m>>

\* The keywords of keywords[:3] whose similarity is below the threshold.
MissingKeywords(text, kws) ==
    LET first3 == SubSeq(kws, 1, IF Len(kws) < 3 THEN Len(kws) ELSE 3)
    IN  SelectSeq(first3, LAMBDA kw : text.sim[kw] < similarity_threshold)

\* _generate_feedback: the sentences, in order; " ".join is the sequence.
_generate_feedback(keyword_score, content_score, completeness_score, kws, text) ==
    LET overall == <<keyword_score[1] * content_score[2] * completeness_score[2]
                     + content_score[1] * keyword_score[2] * completeness_score[2]
                     + completeness_score[1] * keyword_score[2] * content_score[2],
                     3 * keyword_score[2] * content_score[2] * completeness_score[2]>>
        missing == MissingKeywords(text, kws)
        p1 == IF FracGE(overall, <<8, 10>>) THEN << <<"Excellent answer!">> >>
              ELSE IF FracGE(overall, <<6, 10>>)
                   THEN << <<"Good answer with room for improvement.">> >>
              ELSE << <<"Answer needs more development.">> >>
        p2 == IF FracGE(keyword_score, <<7, 10>>)
              THEN << <<"You covered the key concepts well.">> >>
              ELSE IF FracGE(keyword_score, <<5, 10>>)
                   THEN << <<"You addressed some key concepts but missed others.">> >>
              ELSE << <<"Important concepts are missing from your answer.">> >>
                   \o (IF kws # <<>> /\ missing # <<>>
                       THEN << <<"Consider including:">> \o missing >>
                       ELSE <<>>)
        p3 == IF FracGE(content_score, <<7, 10>>)
              THEN << <<"Your answer aligns well with the expected response.">> >>
              ELSE IF FracLT(content_score, <<5, 10>>)
                   THEN << <<"Your answer differs significantly from the expected response.">> >>
              ELSE <<>>
        p4 == IF FracGE(completeness_score, <<7, 10>>)
              THEN << <<"Answer is well-detailed and complete.">> >>
              ELSE IF FracLT(completeness_score, <<5, 10>>)
                   THEN << <<"Answer lacks sufficient detail and completeness.">> >>
              ELSE <<>>
    IN  p1 \o p2 \o p3 \o p4

\* total_score = keyword*0.4 + content*0.4 + completeness*0.2, as a fraction.
TotalScore(k, c, p) ==
    <<keyword_weight * k[1] * c[2] * p[2] + content_weight * c[1] * k[2] * p[2]
      + completeness_weight * p[1] * k[2] * c[2],
      10 * k[2] * c[2] * p[2]>>

\* grade_answer: marks_obtained = round(total_score * question.marks, 2), in cents.
grade_answer(answer, question) ==
    LET text == answer.answer_text
        kws == IF question.keywords # <<>> THEN question.keywords
               ELSE _extract_keywords_nlp(question.expected)
        keyword_score == _calculate_keyword_similarity(text, kws)
        content_score == _calculate_content_similarity(text)
        completeness_score == _calculate_completeness(text, question.expected)
        total_score == TotalScore(keyword_score, content_score, completeness_score)
    IN  [marks_obtained |-> RoundHalfEven(100 * question.marks * total_score[1],
                                          total_score[2]),
         marks_allocated |-> 100 * question.marks,
         feedback |-> _generate_feedback(keyword_score, content_score,
                                         completeness_score, kws, text)]

(* ------------------------------ records -------------------------------- *)

ExamIds == {"e1"}
CourseIds == {"c1"}

\* What the language model reports about an answer text (see the header).
Texts == [sim : [Keywords -> KwSims],
          hits : {[k \in Keywords |-> IF k \in K THEN h ELSE 0] :
                    K \in {{k1}, Keywords}, h \in Hits},
          csim : ContentSims, covers : {{}, {"c1"}, Concepts}, lenOk : BOOLEAN]

\* What it reports about an expected answer.
Expecteds == [extracted : {<<>>, <<k2>>},
              concepts : {{}, Concepts}]

\* The keyword lists of a question: k1, k2, k1, ... cut at every length.
KeywordLists == {[i \in 1..n |-> IF i % 2 = 1 THEN k1 ELSE k2] : n \in 0..MaxKw}

\* Question row (apps/exams/models.py).
QuestionRow(e, m, kws, exp) ==
    [exam |-> e, marks |-> m, keywords |-> kws, expected |-> exp]

\* Submission row as Submission.objects.create(...) of submit_exam stores it:
\* the other columns take the model's defaults.
NewSubmission(u, e, total) ==
    [student |-> u, exam |-> e, status |-> "submitted", obtained_marks |-> 0,
     total_marks |-> total, percentage |-> 0, is_graded |-> FALSE]

\* Answer row as submit_exam builds it: marks_allocated copies q.marks.
NewAnswer(s, q, text, marks) ==
    [submission |-> s, question |-> q, answer_text |-> text, marks_obtained |-> 0,
     marks_allocated |-> 100 * marks, feedback |-> <<>>]

\* submission.answers.all(): the answer rows of submission s, in key order.
AnswersOf(ans, s) == SelectSeq([i \in DOMAIN ans |-> i], LAMBDA i : ans[i].submission = s)

\* Position of answer row i among the answers of its submission.
PosOf(ans, i) == Cardinality({j \in 1..i : ans[j].submission = ans[i].submission})

(* ---------------------- Submission.calculate_percentage ---------------- *)

\* A percentage that is added onto the percentage the row already stores.
AccumulatedPercentage(sub) ==
    IF sub.total_marks > 0
    THEN <<sub.obtained_marks * 100 * 100 + sub.percentage * sub.total_marks,
           100 * sub.total_marks>>
    ELSE <<0, 1>>

\* (obtained_marks / total_marks) * 100 as a Decimal (28 digits, kept exact
\* here), 0 when total_marks is not positive.  Nothing is rounded or clamped.
calculate_percentage(sub) ==
    IF sub.total_marks > 0 THEN <<sub.obtained_marks * 100, sub.total_marks>>
    ELSE <<0, 1>>

\* BaseGradingService.calculate_marks_percentage: round(obtained/total*100, 2),
\* in hundredths of a percent; 0 when total is 0.  No caller in the repository.
calculate_marks_percentage(obtained, total) ==
    IF total = 0 THEN 0 ELSE RoundHalfEven(obtained * 100 * 100, total)

\* The value the percentage column DecimalField(max_digits=5, decimal_places=2)
\* stores for a Decimal: quantized to two places, in hundredths of a percent.
StoredPercentage(p) == RoundHalfEven(p[1] * 100, p[2])

\* max_digits=5: a percentage of 1000 or more cannot be stored, save() raises.
PercentageFits(p) == StoredPercentage(p) < 100000

(* ------------------ SpacyGradingService.grade_submission --------------- *)

\* A running total that starts from the marks the submission already holds.
CarriedTotal(sub) == sub.obtained_marks

\* The running total of the loop starts from Decimal('0.00').
InitialTotal(sub) == 0

\* grade_submission(submission) on the rows ans/subs; `fail` is the position
\* of the answer whose scoring raises (0: none does).  Every answer before it
\* has been written by answer.save(); the submission row is written by
\* submission.save() only after the loop.  The in-memory percentage is the
\* unrounded Decimal, which is what the returned summary carries.
grade_submission(ans, subs, qs, s, fail) ==
    LET idx == AnswersOf(ans, s)
        done(i) == ans[i].submission = s /\ (fail = 0 \/ PosOf(ans, i) < fail)
        res(i) == grade_answer(ans[i], qs[ans[i].question])
        ans2 == [i \in DOMAIN ans |->
                   IF done(i)
                   THEN [ans[i] EXCEPT !.marks_obtained = res(i).marks_obtained,
                                       !.feedback = res(i).feedback]
                   ELSE ans[i]]
        total_obtained == InitialTotal(subs[s])
                          + SumSeq([k \in DOMAIN idx |-> ans2[idx[k]].marks_obtained])
        pct == calculate_percentage([subs[s] EXCEPT !.obtained_marks = total_obtained])
        raised == fail # 0 \/ ~PercentageFits(pct)
    IN  [answers |-> ans2,
         submissions |-> IF raised THEN subs
                         ELSE [subs EXCEPT ![s].obtained_marks = total_obtained,
                                           ![s].percentage = StoredPercentage(pct)],
         raised |-> raised,
         summary |-> IF raised THEN NoRow
                     ELSE [total_obtained |-> total_obtained,
                           total_marks |-> subs[s].total_marks,
                           percentage |-> pct,
                           answer_results |-> [k \in DOMAIN idx |-> res(idx[k])]]]

(* ------------------- the grading service called directly --------------- *)

NoCall == [op |-> "none"]
NoResponse == [op |-> "none"]

\* grading_service.grade_submission(submission) outside any transaction:
\* every save() is committed as it is made.
GradeSubmission(s, fail) ==
    /\ s \in DOMAIN submissions
    /\ fail \in 0..Len(AnswersOf(answers, s))
    /\ LET r == grade_submission(answers, submissions, questions, s, fail)
       IN  /\ answers' = r.answers
           /\ submissions' = r.submissions
           /\ call' = [op |-> "grade_submission", sub |-> s,
                       outcome |-> IF r.raised THEN "raised" ELSE "returned",
                       regrade |-> \A i \in DOMAIN answers :
                                      answers[i].submission = s => answers[i].feedback # <<>>,
                       summary |-> r.summary]
    /\ UNCHANGED <<courses, enrollments, exams, questions, response, redis, now, request, pc>>

\* Three texts for submissions with several answers: one matching the
\* expected answer, one partly, one not at all.
SampleTexts ==
    { [sim |-> [k \in Keywords |-> 10], hits |-> [k \in Keywords |-> 2], csim |-> 10,
       covers |-> Concepts, lenOk |-> TRUE],
      [sim |-> [k \in Keywords |-> IF k = k1 THEN 6 ELSE 5],
       hits |-> [k \in Keywords |-> 0], csim |-> 5, covers |-> {"c1"}, lenOk |-> TRUE],
      [sim |-> [k \in Keywords |-> -2], hits |-> [k \in Keywords |-> 0], csim |-> -2,
       covers |-> {}, lenOk |-> FALSE] }

ExamRow(c, pub, total) == [course |-> c, is_published |-> pub, total_marks |-> total]

\* One stored submission with one answer, over every text and question.
InitWide ==
    \E m \in 1..MaxMarks, kws \in KeywordLists, exp \in Expecteds,
       text \in Texts :
        /\ questions = [q \in QIds |-> IF q = "q1" THEN QuestionRow("e1", m, kws, exp)
                                       ELSE NoRow]
        /\ exams = [e \in ExamIds |-> ExamRow("c1", TRUE, m)]
        /\ submissions = <<NewSubmission("s1", "e1", 100 * m)>>
        /\ answers = <<NewAnswer(1, "q1", text, m)>>

\* One stored submission answering any of two questions, whose total_marks is
\* any value exam.total_marks can hold.
InitMulti ==
    \E m1, m2 \in 1..MaxMarks, total \in 0..MaxTotal,
       qs \in {s \in SeqsUpTo(QIds, MaxAnswers) : Cardinality(Range(s)) = Len(s)} :
      \E txt \in [DOMAIN qs -> SampleTexts] :
        /\ questions = [q \in QIds |->
                          IF q = "q1"
                          THEN QuestionRow("e1", m1, <<k1, k2>>,
                                           [extracted |-> <<>>, concepts |-> {"c1", "c2"}])
                          ELSE QuestionRow("e1", m2, <<>>,
                                           [extracted |-> <<k2>>, concepts |-> {"c1"}])]
        /\ exams = [e \in ExamIds |-> ExamRow("c1", TRUE, total)]
        /\ submissions = <<NewSubmission("s1", "e1", 100 * total)>>
        /\ answers = [k \in DOMAIN qs |-> NewAnswer(1, qs[k], txt[k], questions[qs[k]].marks)]

InitEngine ==
    /\ courses = {"c1"}
    /\ enrollments = {<<"s1", "c1", "active">>}
    /\ response = NoResponse
    /\ call = NoCall
    /\ redis = EmptyStore
    /\ now = 0
    /\ request = NoRequest
    /\ pc = NoRequests
    /\ (InitWide \/ InitMulti)

NextEngine == \E s \in 1..1, fail \in 0..MaxAnswers : GradeSubmission(s, fail)

SpecEngine == InitEngine /\ [][NextEngine]_vars

(* ---------- GeminiAnalysisService / MistralAnalysisService ------------- *)

AnalysisServices == {"gemini", "mistral"}

\* What goes wrong during one analyze_submission call:
\*   "none"        nothing
\*   "context"     a read of the answers, questions or exam raises while
\*                 _prepare_submission_context builds the prompt data
\*   "network"     the client call raises (no connection, timeout, rejected key)
\*   "unparsable"  the response has no text / no choices
AnalysisFaults == {"none", "context", "network", "unparsable"}

\* An analysis that does not look at is_graded.
AnalyzeUnguarded(sub, fault) ==
    IF fault = "context"
    THEN [outcome |-> "raised", result |-> NoRow, external |-> FALSE]
    ELSE IF fault \in {"network", "unparsable"}
    THEN [outcome |-> "returned", result |-> [error |-> "AI analysis failed"],
          external |-> TRUE]
    ELSE [outcome |-> "returned", result |-> [full_analysis |-> "text"],
          external |-> TRUE]

\* analyze_submission(submission): the guard on is_graded, the context and
\* the prompt built outside the try block, the client call and the reading
\* of its response inside it.  `external` tells whether the client was called.
analyze_submission(sub, fault) ==
    IF ~sub.is_graded
    THEN [outcome |-> "returned", result |-> [error |-> "Submission must be graded first"],
          external |-> FALSE]
    ELSE IF fault = "context"
    THEN [outcome |-> "raised", result |-> NoRow, external |-> FALSE]
    ELSE IF fault \in {"network", "unparsable"}
    THEN [outcome |-> "returned", result |-> [error |-> "AI analysis failed"],
          external |-> TRUE]
    ELSE [outcome |-> "returned", result |-> [full_analysis |-> "text"],
          external |-> TRUE]

\* service.analyze_submission(submission) called on a stored submission.
AnalyzeSubmission(s, service, fault) ==
    /\ s \in DOMAIN submissions
    /\ LET r == analyze_submission(submissions[s], fault)
       IN  call' = [op |-> "analyze_submission", sub |-> s, service |-> service,
                    fault |-> fault, outcome |-> r.outcome, result |-> r.result,
                    external |-> r.external]
    /\ UNCHANGED <<courses, enrollments, exams, questions, submissions, answers, response, redis, now, request, pc>>

\* Stored submissions as submit_exam lines 97-142 write them: created with
\* their answers, then either left ungraded or graded by grade_submission
\* and marked graded.
InitAnalysis ==
    \E m1, m2 \in 1..MaxMarks, total \in 0..MaxTotal, graded \in BOOLEAN,
       qs \in {s \in SeqsUpTo(QIds, MaxAnswers) : Cardinality(Range(s)) = Len(s)} :
      \E txt \in [DOMAIN qs -> SampleTexts] :
        LET qrows == [q \in QIds |->
                        IF q = "q1"
                        THEN QuestionRow("e1", m1, <<k1, k2>>,
                                         [extracted |-> <<>>, concepts |-> {"c1", "c2"}])
                        ELSE QuestionRow("e1", m2, <<>>,
                                         [extracted |-> <<k2>>, concepts |-> {"c1"}])]
            subs0 == <<NewSubmission("s1", "e1", 100 * total)>>
            ans0 == [k \in DOMAIN qs |-> NewAnswer(1, qs[k], txt[k], qrows[qs[k]].marks)]
            r == grade_submission(ans0, subs0, qrows, 1, 0)
        IN  /\ questions = qrows
            /\ exams = [e \in ExamIds |-> ExamRow("c1", TRUE, total)]
            /\ submissions = IF graded
                             THEN [r.submissions EXCEPT ![1].status = "graded",
                                                        ![1].is_graded = TRUE]
                             ELSE subs0
            /\ answers = IF graded THEN r.answers ELSE ans0
            /\ courses = {"c1"}
            /\ enrollments = {<<"s1", "c1", "active">>}
            /\ response = NoResponse
            /\ call = NoCall
            /\ redis = EmptyStore
            /\ now = 0
            /\ request = NoRequest
            /\ pc = NoRequests

NextAnalysis ==
    \E s \in 1..1, service \in AnalysisServices, fault \in AnalysisFaults :
        AnalyzeSubmission(s, service, fault)

SpecAnalysis == InitAnalysis /\ [][NextAnalysis]_vars

(* ------------------------- the HTTP handlers --------------------------- *)

Absent(row) == row = NoRow

\* Response of a handler other than submit_exam.
Reply(op, u, status) == [op |-> op, user |-> u, status |-> status]

\* Response of a course or exam handler: pk is the row the request is
\* about, ref the course an exam request names ("-" when it names none).
ReplyFor(op, u, status, pk, ref) ==
    [op |-> op, user |-> u, status |-> status, pk |-> pk, ref |-> ref]

\* A permission that lets every authenticated user through.
AnyRole(u) == TRUE

\* core.permissions.IsTeacher / IsStudent: the role of the authenticated user.
IsTeacher(u) == u \in Teachers
IsStudent(u) == u \in Students

\* CourseViewSet.create (get_permissions: IsTeacher); Course.code is unique.
CreateCourse(u, c) ==
    /\ IF ~IsTeacher(u)
       THEN /\ response' = ReplyFor("course_create", u, 403, c, "-")
            /\ UNCHANGED courses
       ELSE IF c \in courses
       THEN /\ response' = ReplyFor("course_create", u, 400, c, "-")
            /\ UNCHANGED courses
       ELSE /\ courses' = courses \cup {c}
            /\ response' = ReplyFor("course_create", u, 201, c, "-")
    /\ UNCHANGED <<enrollments, exams, questions, submissions, answers, call, redis, now, request, pc>>

\* CourseViewSet.update / partial_update: no column of a course is read by
\* another handler, so the stored rows stay as they are.
UpdateCourse(u, c) ==
    /\ response' = IF ~IsTeacher(u) THEN ReplyFor("course_update", u, 403, c, "-")
                   ELSE IF c \notin courses THEN ReplyFor("course_update", u, 404, c, "-")
                   ELSE ReplyFor("course_update", u, 200, c, "-")
    /\ UNCHANGED <<courses, enrollments, exams, questions, submissions, answers, call, redis, now, request, pc>>

\* on_delete=CASCADE: deleting the exams E deletes their questions, their
\* submissions and the answers of those; the rows that stay keep their order.
KeptSubmissions(E) ==
    SelectSeq([i \in DOMAIN submissions |-> i], LAMBDA i : submissions[i].exam \notin E)

DeleteExams(E) ==
    LET keep == KeptSubmissions(E)
        new(i) == CHOOSE k \in DOMAIN keep : keep[k] = i
        kept == SelectSeq(answers, LAMBDA a : submissions[a.submission].exam \notin E)
    IN  /\ exams' = [e \in ExamIds |-> IF e \in E THEN NoRow ELSE exams[e]]
        /\ questions' = [q \in QIds |->
                           IF ~Absent(questions[q]) /\ questions[q].exam \in E
                           THEN NoRow ELSE questions[q]]
        /\ submissions' = [k \in DOMAIN keep |-> submissions[keep[k]]]
        /\ answers' = [k \in DOMAIN kept |->
                         [kept[k] EXCEPT !.submission = new(kept[k].submission)]]

\* CourseViewSet.destroy: the course, its enrollments and its exams go.
DestroyCourse(u, c) ==
    /\ IF ~IsTeacher(u)
       THEN /\ response' = ReplyFor("course_destroy", u, 403, c, "-")
            /\ UNCHANGED <<courses, enrollments, exams, questions, submissions, answers>>
       ELSE IF c \notin courses
       THEN /\ response' = ReplyFor("course_destroy", u, 404, c, "-")
            /\ UNCHANGED <<courses, enrollments, exams, questions, submissions, answers>>
       ELSE /\ courses' = courses \ {c}
            /\ enrollments' = {en \in enrollments : en[2] # c}
            /\ DeleteExams({e \in ExamIds : ~Absent(exams[e]) /\ exams[e].course = c})
            /\ response' = ReplyFor("course_destroy", u, 204, c, "-")
    /\ UNCHANGED <<call, redis, now, request, pc>>

\* ExamViewSet.destroy
DestroyExam(u, e) ==
    /\ IF ~IsTeacher(u)
       THEN /\ response' = ReplyFor("exam_destroy", u, 403, e, "-")
            /\ UNCHANGED <<exams, questions, submissions, answers>>
       ELSE IF Absent(exams[e])
       THEN /\ response' = ReplyFor("exam_destroy", u, 404, e, "-")
            /\ UNCHANGED <<exams, questions, submissions, answers>>
       ELSE /\ DeleteExams({e})
            /\ response' = ReplyFor("exam_destroy", u, 204, e, "-")
    /\ UNCHANGED <<courses, enrollments, call, redis, now, request, pc>>

\* A lookup that finds no enrollment.
NoEnrollmentFound(u, c) == FALSE

\* Enrollment.objects.filter(student=request.user, course=course).exists()
EnrollmentExists(u, c) == \E st \in EnrollmentStatuses : <<u, c, st>> \in enrollments

\* course.enrollments.filter(student=request.user, status='active').exists()
ActivelyEnrolled(u, c) == <<u, c, "active">> \in enrollments

\* CourseViewSet.enroll.  get_permissions() answers [IsAuthenticated()] for
\* this action, so the role of the user is not looked at.
Enroll(u, c) ==
    /\ IF c \notin courses
       THEN /\ response' = ReplyFor("enroll", u, 404, c, "-")
            /\ UNCHANGED enrollments
       ELSE IF EnrollmentExists(u, c)
       THEN /\ response' = ReplyFor("enroll", u, 400, c, "-")
            /\ UNCHANGED enrollments
       ELSE /\ enrollments' = enrollments \cup {<<u, c, "active">>}
            /\ response' = ReplyFor("enroll", u, 201, c, "-")
    /\ UNCHANGED <<courses, exams, questions, submissions, answers, call, redis, now, request, pc>>

\* ExamViewSet.create: total_marks and is_published are what the request says.
CreateExam(u, e, c, total, pub) ==
    /\ Absent(exams[e])
    /\ IF ~IsTeacher(u)
       THEN /\ response' = ReplyFor("exam_create", u, 403, e, c)
            /\ UNCHANGED exams
       ELSE IF c \notin courses
       THEN /\ response' = ReplyFor("exam_create", u, 400, e, c)
            /\ UNCHANGED exams
       ELSE /\ exams' = [exams EXCEPT ![e] = ExamRow(c, pub, total)]
            /\ response' = ReplyFor("exam_create", u, 201, e, c)
    /\ UNCHANGED <<courses, enrollments, questions, submissions, answers, call, redis, now, request, pc>>

\* ExamViewSet.update / partial_update.
UpdateExam(u, e, total, pub) ==
    /\ IF ~IsTeacher(u)
       THEN /\ response' = ReplyFor("exam_update", u, 403, e, "-")
            /\ UNCHANGED exams
       ELSE IF Absent(exams[e])
       THEN /\ response' = ReplyFor("exam_update", u, 404, e, "-")
            /\ UNCHANGED exams
       ELSE /\ exams' = [exams EXCEPT ![e].total_marks = total, ![e].is_published = pub]
            /\ response' = ReplyFor("exam_update", u, 200, e, "-")
    /\ UNCHANGED <<courses, enrollments, questions, submissions, answers, call, redis, now, request, pc>>

\* sum(q.marks for q in exam.questions.all())
SumOfQuestionMarks(qs, e) ==
    LET of == {q \in QIds : ~Absent(qs[q]) /\ qs[q].exam = e}
        RECURSIVE Sum(_)
        Sum(S) == IF S = {} THEN 0
                  ELSE LET q == CHOOSE x \in S : TRUE IN qs[q].marks + Sum(S \ {q})
    IN  Sum(of)

\* The keywords and expected answer of the questions teachers create here.
QuestionExpected == [extracted |-> <<>>, concepts |-> Concepts]

\* The JSON values a request sends as 'keywords', each <<type, value>>: the
\* entries of a list are strings, or a number or null; the value itself is
\* a list, or a string or a number.
KeywordEntries == {<<"str", s>> : s \in Strings} \cup {<<"int", 1>>, <<"null", 0>>}
KeywordValues ==
    {<<"list", l>> : l \in SeqsUpTo(KeywordEntries, MaxKw)}
        \cup {<<"str", k1>>, <<"int", 1>>}

\* The JSON list of the strings ks.
ListOfStrings(ks) == <<"list", [i \in DOMAIN ks |-> <<"str", ks[i]>>]>>

\* The keywords the requests of the HTTP specification send.
RequestKeywords == ListOfStrings(<<<<"A">>, <<"a", "a">>>>)

\* QuestionSerializer.validate_keywords: what it raises, or the list it
\* returns.  kw.strip() on an entry that is not a str raises AttributeError.
validate_keywords(value) ==
    IF value[1] # "list"
    THEN [raised |-> "ValidationError", value |-> <<>>]
    ELSE IF \E i \in DOMAIN value[2] : value[2][i][1] # "str"
    THEN [raised |-> "AttributeError", value |-> <<>>]
    ELSE LET kept == SelectSeq(value[2], LAMBDA kw : strip(kw[2]) # <<>>)
         IN  [raised |-> "none",
              value |-> [i \in DOMAIN kept |-> lower(strip(kept[i][2]))]]

\* QuestionViewSet.create with perform_create: the serializer validates
\* every field (an exception that is not a ValidationError leaves the view
\* unhandled: 500), the question is saved, then exam.total_marks becomes
\* the sum of the marks of the exam's questions.
CreateQuestion(u, q, e, marks, value) ==
    /\ Absent(questions[q])
    /\ LET keywords == validate_keywords(value)
       IN  IF ~IsTeacher(u)
           THEN /\ response' = Reply("question_create", u, 403)
                /\ UNCHANGED <<questions, exams>>
           ELSE IF keywords.raised = "AttributeError"
           THEN /\ response' = Reply("question_create", u, 500)
                /\ UNCHANGED <<questions, exams>>
           ELSE IF keywords.raised = "ValidationError" \/ Absent(exams[e]) \/ marks < 1
           THEN /\ response' = Reply("question_create", u, 400)
                /\ UNCHANGED <<questions, exams>>
           ELSE /\ questions' = [questions EXCEPT
                                   ![q] = QuestionRow(e, marks, keywords.value,
                                                      QuestionExpected)]
                /\ exams' = [exams EXCEPT
                               ![e].total_marks = SumOfQuestionMarks(questions', e)]
                /\ response' = Reply("question_create", u, 201)
    /\ UNCHANGED <<courses, enrollments, submissions, answers, call, redis, now, request, pc>>

\* QuestionViewSet.update: perform_update is the default, the exam's
\* total_marks is not recomputed.
UpdateQuestion(u, q, marks) ==
    /\ IF ~IsTeacher(u)
       THEN /\ response' = Reply("question_update", u, 403)
            /\ UNCHANGED questions
       ELSE IF Absent(questions[q])
       THEN /\ response' = Reply("question_update", u, 404)
            /\ UNCHANGED questions
       ELSE IF marks < 1
       THEN /\ response' = Reply("question_update", u, 400)
            /\ UNCHANGED questions
       ELSE /\ questions' = [questions EXCEPT ![q].marks = marks]
            /\ response' = Reply("question_update", u, 200)
    /\ UNCHANGED <<courses, enrollments, exams, submissions, answers, call, redis, now, request, pc>>

(* ------------------ SubmissionViewSet.submit_exam ---------------------- *)

\* The keys every item of request.data['answers'] carries:
\*   "empty"        answers is []
\*   "question_id"  {question_id, answer_text}   (test_student_can_submit_exam)
\*   "question"     {question, answer_text}      (test_duplicate_submission_prevented)
\*   "both"         {question, question_id, answer_text}
\*   "long"         as "both", an answer_text of more than 5000 characters
Shapes == {"empty", "question_id", "question", "both", "long"}

\* A JSON value of the request: <<type, value>>.
JsonTypes == {"int", "str"}
ExamRaws == {<<"int", "e1">>, <<"str", "e1">>, <<"int", "e9">>}
RequestQIds == QIds \cup {"q9"}

\* SubmissionCreateSerializer.validate_answers: a non-empty list whose items
\* all carry 'question' and 'answer_text', no text longer than 5000.
validate_answers(shape) == shape \in {"question", "both"}

\* serializers.UUIDField on the 'exam' value: an int is taken as UUID(int=..),
\* a str must be a 32-digit hexadecimal UUID, which the decimal text of a
\* primary key is not.
ExamFieldValid(examRaw) == examRaw[1] = "int"

\* DictField(child=CharField()): every value of an item is coerced to str.
CharField(raw) == <<"str", raw[2]>>

\* The keys of QuerySet.in_bulk(): the primary keys, integers.
PkKey(q) == <<"int", q>>

\* Question.objects.filter(exam=exam, id__in=question_ids).in_bulk(): the
\* database compares the ids by value, the dict is keyed by primary key.
questions_qs(e, question_ids) ==
    {PkKey(q) : q \in {x \in QIds : /\ ~Absent(questions[x])
                                    /\ questions[x].exam = e
                                    /\ \E i \in DOMAIN question_ids : question_ids[i][2] = x}}

\* [qid for qid in question_ids if qid not in questions_qs]
missing_ids(e, question_ids) ==
    SelectSeq(question_ids, LAMBDA qid : qid \notin questions_qs(e, question_ids))

\* A lookup that finds no earlier submission.
NoSubmissionFound(subs, u, e) == FALSE

\* Submission.objects.filter(student=request.user, exam=exam).exists()
SubmissionExists(subs, u, e) ==
    \E s \in DOMAIN subs : subs[s].student = u /\ subs[s].exam = e

\* The request names, by value, only questions of the exam, each once.
IdsOfExam(e, raws) ==
    /\ \A i \in DOMAIN raws : /\ raws[i][2] \in QIds
                              /\ ~Absent(questions[raws[i][2]])
                              /\ questions[raws[i][2]].exam = e
    /\ Cardinality(Range(raws)) = Len(raws)

\* What get_analysis_service() gives: "disabled" (the setting is off: None),
\* "unavailable" (ImportError/ValueError: None), "broken" (another exception),
\* "ok" (a service whose analyze_submission returns a dict).
AnalysisStates == {"disabled", "unavailable", "broken", "ok"}

SubmitReply(u, status, msg, shape, examRaw, active, ids) ==
    [op |-> "submit_exam", user |-> u, status |-> status, msg |-> msg,
     shape |-> shape, exam |-> examRaw, is_active |-> active, ids_ok |-> ids]

\* The end of a submit_exam request: the response, and the rows the
\* transaction leaves (Response or dict returned: committed; exception: the
\* rows as before).
Finish(resp, subs, ans) ==
    /\ response' = resp
    /\ submissions' = subs
    /\ answers' = ans
    /\ UNCHANGED <<courses, enrollments, exams, questions, call, redis, now, request>>

\* Lines 117-158: answers are created, graded, the submission marked graded
\* and the analysis attached to the response.
CreateAndGrade(u, e, shape, examRaw, question_ids, subs1) ==
    \E text \in SampleTexts, serviceOk \in BOOLEAN, fail \in 0..Len(question_ids),
       analysis \in AnalysisStates :
      LET s == Len(subs1)
          ans1 == answers \o [k \in DOMAIN question_ids |->
                                NewAnswer(s, question_ids[k][2], text,
                                          questions[question_ids[k][2]].marks)]
          r == grade_submission(ans1, subs1, questions, s, fail)
          graded == [r.submissions EXCEPT ![s].status = "graded", ![s].is_graded = TRUE]
          re(status, msg) == SubmitReply(u, status, msg, shape, examRaw, "yes", "yes")
      IN  IF Cardinality(Range(question_ids)) # Len(question_ids)
          THEN \* bulk_create: unique (submission, question), IntegrityError
               Finish(re(500, "integrity_error"), submissions, answers)
          ELSE IF ~serviceOk
          THEN \* get_service() raises inside try: a dict is returned
               Finish(re(500, "grading_error"), subs1, ans1)
          ELSE IF r.raised
          THEN Finish(re(500, "grading_error"), subs1, r.answers)
          ELSE IF analysis = "broken"
          THEN Finish(re(500, "grading_error"), r.submissions, r.answers)
          ELSE IF analysis \in {"disabled", "unavailable"}
          THEN \* ai_grading is None: AttributeError while building the Response
               Finish(re(500, "attribute_error"), submissions, answers)
          ELSE Finish(re(201, "submitted"), graded, r.answers)

\* Lines 105-158, once the Submission row subs1 ends with is created: the
\* question ids are read and looked up, then the answers stored and graded.
StoreAnswers(u, e, shape, examRaw, subs1) ==
    LET re(status, msg, ids) == SubmitReply(u, status, msg, shape, examRaw, "yes", ids)
    IN  IF shape = "question"
        THEN \* item['question_id']: KeyError, the transaction rolls back
             Finish(re(500, "key_error", "-"), submissions, answers)
        ELSE \E jsonType \in JsonTypes,
                qids \in SeqsUpTo(RequestQIds, MaxAnswers) \ {<<>>} :
          LET raws == [i \in DOMAIN qids |-> <<jsonType, qids[i]>>]
              question_ids == [i \in DOMAIN raws |-> CharField(raws[i])]
              ok == IF IdsOfExam(e, raws) THEN "yes" ELSE "no"
          IN  IF missing_ids(e, question_ids) # <<>>
              THEN \* a Response is returned: the transaction commits
                   Finish(re(400, "invalid_question_ids", ok), subs1, answers)
              ELSE CreateAndGrade(u, e, shape, examRaw, question_ids, subs1)

\* One submit_exam request served alone, from its first line to its
\* response.  is_active is what exam.is_active() answers at the time of the
\* request (start_time <= now <= end_time).
SubmitExam(u) ==
    /\ UNCHANGED pc
    /\ \E shape \in Shapes, examRaw \in ExamRaws, is_active \in BOOLEAN :
      LET e == examRaw[2]
          active == IF is_active THEN "yes" ELSE "no"
          re(status, msg, ids) ==
              SubmitReply(u, status, msg, shape, examRaw, active, ids)
      IN  IF ~IsStudent(u)
          THEN Finish(SubmitReply(u, 403, "permission", "-", <<"-", "-">>, "-", "-"),
                      submissions, answers)
          ELSE IF ~(validate_answers(shape) /\ ExamFieldValid(examRaw))
          THEN Finish(re(400, "validation", "-"), submissions, answers)
          ELSE IF e \notin ExamIds \/ Absent(exams[e]) \/ ~exams[e].is_published
          THEN Finish(re(404, "exam_not_found", "-"), submissions, answers)
          ELSE
            IF ~is_active
            THEN Finish(re(400, "not_active", "-"), submissions, answers)
            ELSE IF ~ActivelyEnrolled(u, exams[e].course)
            THEN Finish(re(403, "not_enrolled", "-"), submissions, answers)
            ELSE IF SubmissionExists(submissions, u, e)
            THEN Finish(re(400, "already_submitted", "-"), submissions, answers)
            ELSE StoreAnswers(u, e, shape, examRaw,
                              Append(submissions,
                                     NewSubmission(u, e, 100 * exams[e].total_marks)))

Init ==
    /\ courses = {}
    /\ enrollments = {}
    /\ exams = [e \in ExamIds |-> NoRow]
    /\ questions = [q \in QIds |-> NoRow]
    /\ submissions = <<>>
    /\ answers = <<>>
    /\ response = NoResponse
    /\ call = NoCall
    /\ redis = EmptyStore
    /\ now = 0
    /\ request = NoRequest
    /\ pc = NoRequests

Next ==
    \/ \E u \in Actors, c \in CourseIds : CreateCourse(u, c)
    \/ \E u \in Actors, c \in CourseIds : UpdateCourse(u, c)
    \/ \E u \in Actors, c \in CourseIds : DestroyCourse(u, c)
    \/ \E u \in Actors, e \in ExamIds : DestroyExam(u, e)
    \/ \E u \in Actors, c \in CourseIds : Enroll(u, c)
    \/ \E u \in Actors, e \in ExamIds, c \in CourseIds, total \in 0..MaxTotal,
          pub \in BOOLEAN : CreateExam(u, e, c, total, pub)
    \/ \E u \in Actors, e \in ExamIds, total \in 0..MaxTotal, pub \in BOOLEAN :
          UpdateExam(u, e, total, pub)
    \/ \E u \in Actors, q \in QIds, e \in ExamIds, marks \in 0..MaxMarks :
          CreateQuestion(u, q, e, marks, RequestKeywords)
    \/ \E u \in Actors, q \in QIds, marks \in 0..MaxMarks : UpdateQuestion(u, q, marks)
    \/ \E u \in Actors : SubmitExam(u)

Spec == Init /\ [][Next]_vars

(* ------------------------------- claims -------------------------------- *)

Graded(a) == a.feedback # <<>>

\* C1: every graded answer has 0 <= marks_obtained <= marks_allocated.
C1_MarksWithinAllocated ==
    \A i \in DOMAIN answers :
        Graded(answers[i]) =>
            /\ 0 <= answers[i].marks_obtained
            /\ answers[i].marks_obtained <= answers[i].marks_allocated

\* C1 witness: some graded answer earned every mark allocated to it.
C1_Witness ==
    \E i \in DOMAIN answers :
        /\ Graded(answers[i])
        /\ answers[i].marks_obtained = answers[i].marks_allocated
        /\ answers[i].marks_allocated > 0

\* C2 (as claimed): a grade_submission call that fails leaves every answer
\* row and the submission row as they were before the call.
C2_AllOrNone ==
    [][(call'.op = "grade_submission" /\ call'.outcome = "raised")
         => (answers' = answers /\ submissions' = submissions)]_vars

\* C7 (as claimed): every stored percentage lies in [0, 100].
C7_PercentageInRange ==
    \A s \in DOMAIN submissions :
        0 <= submissions[s].percentage /\ submissions[s].percentage <= 100 * 100

\* C8 (as claimed): after grading, the stored percentage and the percentage
\* of the returned summary both equal round(obtained/total*100, 2), and 0
\* when total_marks is 0.
C8_PercentageLaw ==
    (call.op = "grade_submission" /\ call.outcome = "returned") =>
        LET sub == submissions[call.sub]
            law == calculate_marks_percentage(sub.obtained_marks, sub.total_marks)
            p == call.summary.percentage
        IN  /\ sub.percentage = law
            /\ p[1] * 100 = law * p[2]

SumObtained(s) ==
    LET idx == AnswersOf(answers, s)
    IN  SumSeq([k \in DOMAIN idx |-> answers[idx[k]].marks_obtained])

\* C10: after grade_submission returns, obtained_marks and the returned
\* total_obtained equal the sum of marks_obtained over the submission's
\* answers, on a first grading and on every later one.
C10_ObtainedIsSum ==
    (call.op = "grade_submission" /\ call.outcome = "returned") =>
        /\ submissions[call.sub].obtained_marks = SumObtained(call.sub)
        /\ call.summary.total_obtained = SumObtained(call.sub)

\* C10 witness: a submission with marks was graded again.
C10_Witness ==
    /\ call.op = "grade_submission" /\ call.outcome = "returned" /\ call.regrade
    /\ Len(AnswersOf(answers, call.sub)) = 2
    /\ SumObtained(call.sub) > 0

\* C11: when grade_submission returns, the submission is marked graded and
\* every one of its answers has its marks and feedback written.
C11_GradedOnReturn ==
    (call.op = "grade_submission" /\ call.outcome = "returned") =>
        /\ submissions[call.sub].is_graded
        /\ \A i \in DOMAIN answers : answers[i].submission = call.sub => Graded(answers[i])

\* C12: grading is idempotent: a grade_submission call that returns, made
\* right after one that returned for the same submission, leaves every answer
\* row and the submission row as they were and returns the same summary.
C12_Idempotent ==
    [][(/\ call.op = "grade_submission" /\ call.outcome = "returned"
        /\ call'.op = "grade_submission" /\ call'.outcome = "returned"
        /\ call'.sub = call.sub)
         => (/\ answers' = answers
             /\ submissions' = submissions
             /\ call'.summary = call.summary)]_vars

\* C12 witness: a submission holding marks and a non-zero percentage has
\* been graded a second time.
C12_Witness ==
    /\ call.op = "grade_submission" /\ call.outcome = "returned" /\ call.regrade
    /\ submissions[call.sub].percentage > 0
    /\ \A i \in DOMAIN answers : Graded(answers[i])

(* ---------------------- claims about submit_exam ----------------------- *)

\* A step is a submit_exam request of student u for exam e.
SubmitStep(u, e) ==
    /\ response'.op = "submit_exam"
    /\ response'.user = u
    /\ response'.exam[2] = e

\* Before the request: u is a student enrolled in the course of the published
\* exam e and has no submission for it; the exam is active during the request.
Admissible(u, e) ==
    /\ u \in Students
    /\ ~Absent(exams[e]) /\ exams[e].is_published
    /\ <<u, exams[e].course, "active">> \in enrollments
    /\ ~\E s \in DOMAIN submissions : submissions[s].student = u /\ submissions[s].exam = e
    /\ response'.is_active = "yes"
    /\ response'.exam[1] = "int"

\* The submission of u for e after the request is graded.
GradedSubmissionOf(subs, u, e) ==
    \E s \in DOMAIN subs : /\ subs[s].student = u /\ subs[s].exam = e
                            /\ subs[s].is_graded /\ subs[s].status = "graded"

C4_SubmitSucceeds ==
    [][\A u \in Students, e \in ExamIds :
         (SubmitStep(u, e) /\ Admissible(u, e) /\ response'.shape = "question_id")
         => (response'.status = 201 /\ Len(submissions') = Len(submissions) + 1)]_vars

\* C5: a request naming a question id that does not belong to the exam is
\* answered 400 and leaves no Submission and no Answer behind.
C5_ForeignIdRollsBack ==
    [][(response'.op = "submit_exam" /\ response'.ids_ok = "no")
         => (/\ response'.status = 400
             /\ submissions' = submissions
             /\ answers' = answers)]_vars

SumAllocated(s) ==
    LET idx == AnswersOf(answers, s)
    IN  SumSeq([k \in DOMAIN idx |-> answers[idx[k]].marks_allocated])

\* C9: every submission's total_marks is the sum of marks_allocated over
\* its answers.
C9_TotalIsSumAllocated ==
    \A s \in DOMAIN submissions : submissions[s].total_marks = SumAllocated(s)

(* ------------------------- the read handlers --------------------------- *)

\* Response of a read handler: the rows (primary keys) it serializes.
ReadReply(op, u, status, rows) == [op |-> op, user |-> u, status |-> status, rows |-> rows]

\* A queryset that is not narrowed to the requesting student.
AllSubmissions(u) == DOMAIN submissions

\* SubmissionViewSet.get_queryset: a student's queryset holds the
\* submissions whose student is the requesting user, anyone else's holds all.
SubmissionViewSet_get_queryset(u) ==
    IF IsStudent(u) THEN {s \in DOMAIN submissions : submissions[s].student = u}
    ELSE DOMAIN submissions

\* filterset_fields is_graded: "all" when the parameter is not given.
GradedFilters == {"all", "graded", "ungraded"}

\* GET /submissions/ (get_permissions: IsAuthenticated, IsOwnerOrReadOnly).
ListSubmissions(u, f) ==
    /\ response' = ReadReply("submission_list", u, 200,
                             {s \in SubmissionViewSet_get_queryset(u) :
                                \/ f = "all"
                                \/ f = "graded" /\ submissions[s].is_graded
                                \/ f = "ungraded" /\ ~submissions[s].is_graded})
    /\ UNCHANGED <<courses, enrollments, exams, questions, submissions, answers, call, redis, now, request, pc>>

\* GET /submissions/{pk}/: get_object() looks pk up in get_queryset();
\* IsOwnerOrReadOnly lets every safe method through.
RetrieveSubmission(u, pk) ==
    /\ response' = IF pk \in SubmissionViewSet_get_queryset(u)
                   THEN ReadReply("submission_retrieve", u, 200, {pk})
                   ELSE ReadReply("submission_retrieve", u, 404, {})
    /\ UNCHANGED <<courses, enrollments, exams, questions, submissions, answers, call, redis, now, request, pc>>

\* SubmissionViewSet.results
results(u, pk) ==
    /\ response' = IF pk \notin SubmissionViewSet_get_queryset(u)
                   THEN ReadReply("submission_results", u, 404, {})
                   ELSE IF ~submissions[pk].is_graded
                   THEN ReadReply("submission_results", u, 400, {})
                   ELSE ReadReply("submission_results", u, 200, {pk})
    /\ UNCHANGED <<courses, enrollments, exams, questions, submissions, answers, call, redis, now, request, pc>>

\* A queryset that holds every stored exam.
AllExams(u) == {e \in ExamIds : ~Absent(exams[e])}

\* ExamViewSet.get_queryset: a student's queryset holds the published exams
\* of the courses in which the student has an enrollment with status 'active'.
ExamViewSet_get_queryset(u) ==
    IF IsStudent(u)
    THEN {e \in ExamIds : /\ ~Absent(exams[e])
                          /\ <<u, exams[e].course, "active">> \in enrollments
                          /\ exams[e].is_published}
    ELSE {e \in ExamIds : ~Absent(exams[e])}

\* filterset_fields is_published: "all" when the parameter is not given.
PublishedFilters == {"all", "published", "unpublished"}

\* GET /exams/ (get_permissions: IsAuthenticated).
ListExams(u, f) ==
    /\ response' = ReadReply("exam_list", u, 200,
                             {e \in ExamViewSet_get_queryset(u) :
                                \/ f = "all"
                                \/ f = "published" /\ exams[e].is_published
                                \/ f = "unpublished" /\ ~exams[e].is_published})
    /\ UNCHANGED <<courses, enrollments, exams, questions, submissions, answers, call, redis, now, request, pc>>

\* GET /exams/{pk}/
RetrieveExam(u, pk) ==
    /\ response' = IF pk \in ExamViewSet_get_queryset(u)
                   THEN ReadReply("exam_retrieve", u, 200, {pk})
                   ELSE ReadReply("exam_retrieve", u, 404, {})
    /\ UNCHANGED <<courses, enrollments, exams, questions, submissions, answers, call, redis, now, request, pc>>

\* ExamViewSet.start with get_permissions [IsStudent(), IsEnrolledInCourse()]:
\* the role is checked first, get_object() looks pk up in get_queryset() and
\* checks the object permission, then the exam must be published and active.
start(u, pk, is_active) ==
    /\ response' = IF ~IsStudent(u)
                   THEN ReadReply("exam_start", u, 403, {})
                   ELSE IF pk \notin ExamViewSet_get_queryset(u)
                   THEN ReadReply("exam_start", u, 404, {})
                   ELSE IF ~ActivelyEnrolled(u, exams[pk].course)
                   THEN ReadReply("exam_start", u, 403, {})
                   ELSE IF ~exams[pk].is_published \/ ~is_active
                   THEN ReadReply("exam_start", u, 400, {})
                   ELSE ReadReply("exam_start", u, 200, {pk})
    /\ UNCHANGED <<courses, enrollments, exams, questions, submissions, answers, call, redis, now, request, pc>>

\* The primary keys a request can name: the stored rows and one more.
MaxSubmissions == 2
SubmissionPks == 1..(MaxSubmissions + 1)
ExamPks == ExamIds \cup {"e9"}

\* Stored rows for the read handlers: one course, an exam that is absent,
\* unpublished or published, per student no enrollment, an active or a
\* dropped one, and at most one submission per student, graded or not.
InitViews ==
    \E pub \in {"absent", "no", "yes"},
       enr \in [Students -> {"none", "active", "dropped"}],
       who \in {w \in SeqsUpTo(Students, MaxSubmissions) : Cardinality(Range(w)) = Len(w)} :
      \E graded \in [DOMAIN who -> BOOLEAN] :
        /\ courses = {"c1"}
        /\ exams = [e \in ExamIds |-> IF pub = "absent" THEN NoRow
                                       ELSE ExamRow("c1", pub = "yes", 1)]
        /\ questions = [q \in QIds |-> NoRow]
        /\ enrollments = {<<u, "c1", enr[u]>> : u \in {x \in Students : enr[x] # "none"}}
        /\ pub = "absent" => who = <<>>
        /\ submissions = [k \in DOMAIN who |->
                            IF graded[k]
                            THEN [NewSubmission(who[k], "e1", 100)
                                    EXCEPT !.is_graded = TRUE, !.status = "graded"]
                            ELSE NewSubmission(who[k], "e1", 100)]
        /\ answers = <<>>
        /\ response = NoResponse
        /\ call = NoCall
        /\ redis = EmptyStore
        /\ now = 0
        /\ request = NoRequest
        /\ pc = NoRequests

NextViews ==
    \/ \E u \in Users, f \in GradedFilters : ListSubmissions(u, f)
    \/ \E u \in Users, pk \in SubmissionPks : RetrieveSubmission(u, pk)
    \/ \E u \in Users, pk \in SubmissionPks : results(u, pk)
    \/ \E u \in Users, f \in PublishedFilters : ListExams(u, f)
    \/ \E u \in Users, pk \in ExamPks : RetrieveExam(u, pk)
    \/ \E u \in Users, pk \in ExamPks, is_active \in BOOLEAN : start(u, pk, is_active)

SpecViews == InitViews /\ [][NextViews]_vars

(* ----------------------- the JWT blacklist ----------------------------- *)

MaxTime == 3

\* The Authorization header of a request: none, a Bearer credential (an
\* access token, or "junk": text that does not decode as a JWT), or a
\* credential of another scheme.
Headers ==
    {<<"none">>} \cup {<<"bearer", t>> : t \in AccessTokens \cup {"junk"}}
                \cup {<<"basic", t>> : t \in AccessTokens}

\* _token_identifier_and_exp: the key is built from the 'jti' claim (a1),
\* from the SHA-256 of the token when there is none (a2); for text that does
\* not decode, the except block itself fails (it logs the unbound name exc)
\* and the NameError leaves the function.
_token_identifier_and_exp(token) ==
    IF token = "a1" THEN [raised |-> FALSE, key |-> <<"jti", "a1">>, exp |-> TokenExpiry["a1"]]
    ELSE IF token = "a2"
    THEN [raised |-> FALSE, key |-> <<"hash", "a2">>, exp |-> TokenExpiry["a2"]]
    ELSE [raised |-> TRUE]

\* An entry that stays after its TTL has run out.
NeverExpires(store, key, t) == store[key] > 0

\* redis_client.exists(key) == 1: an entry set with setex is there until
\* its TTL has run out.
Exists(store, key, t) == store[key] > t

\* is_token_blacklisted: the key is computed outside the try block; a Redis
\* error inside it is logged and answered False.
is_token_blacklisted(token, redisUp) ==
    LET id == _token_identifier_and_exp(token)
    IN  IF id.raised THEN "raised"
        ELSE IF ~redisUp THEN "no"
        ELSE IF Exists(redis, id.key, now) THEN "yes" ELSE "no"

\* blacklist_token: ttl = exp - now is assigned only when exp > now, so the
\* entry set by setex(key, ttl) runs out at exp; without it, or when Redis
\* fails, the call raises.
blacklist_token(token, redisUp) ==
    LET id == _token_identifier_and_exp(token)
    IN  IF id.raised \/ ~(id.exp > now) \/ ~redisUp
        THEN [raised |-> TRUE, store |-> redis]
        ELSE [raised |-> FALSE, store |-> [redis EXCEPT ![id.key] = now + (id.exp - now)]]

AuthReply(op, header, redisUp, status, msg) ==
    [op |-> op, header |-> header, redis_up |-> redisUp, status |-> status, msg |-> msg]

\* RedisJWTBlacklistMiddleware.process_request: status 0 stands for None,
\* the request goes on to the view.
process_request(header, redisUp) ==
    /\ response' =
         IF header[1] # "bearer"
         THEN AuthReply("process_request", header, redisUp, 0, "passed")
         ELSE IF is_token_blacklisted(header[2], redisUp) = "yes"
         THEN AuthReply("process_request", header, redisUp, 401, "Token has been revoked.")
         ELSE AuthReply("process_request", header, redisUp, 0, "passed")
    /\ UNCHANGED <<courses, enrollments, exams, questions, submissions, answers, call,
                   redis, now, request, pc>>

\* The 'refresh' query parameter of a logout request.
RefreshStates == {"missing", "valid", "invalid"}

\* CustomLogoutView.post, reached by a request that JWTAuthentication
\* accepted: a Bearer access token that has not expired.  Without a refresh
\* token the view answers 400 at once; otherwise the refresh token is
\* blacklisted through SimpleJWT, the access token through blacklist_token,
\* and any error of either turns the answer into 400.
CustomLogoutView_post(token, refresh, redisUp) ==
    /\ token \in AccessTokens
    /\ TokenExpiry[token] > now
    /\ LET b == blacklist_token(token, redisUp)
           header == <<"bearer", token>>
       IN  IF refresh = "missing"
           THEN /\ response' = AuthReply("logout", header, redisUp, 400, "Refresh token missing.")
                /\ UNCHANGED redis
           ELSE /\ redis' = b.store
                /\ response' = IF refresh = "invalid" \/ b.raised
                               THEN AuthReply("logout", header, redisUp, 400,
                                              "Logout completed with errors.")
                               ELSE AuthReply("logout", header, redisUp, 200,
                                              "Logout successful.")
    /\ UNCHANGED <<courses, enrollments, exams, questions, submissions, answers, call, now, request, pc>>

\* Time passes.
Tick ==
    /\ now < MaxTime
    /\ now' = now + 1
    /\ UNCHANGED <<courses, enrollments, exams, questions, submissions, answers,
                   response, call, redis, request, pc>>

InitAuth ==
    /\ courses = {}
    /\ enrollments = {}
    /\ exams = [e \in ExamIds |-> NoRow]
    /\ questions = [q \in QIds |-> NoRow]
    /\ submissions = <<>>
    /\ answers = <<>>
    /\ response = NoResponse
    /\ call = NoCall
    /\ redis = EmptyStore
    /\ now = 0
    /\ request = NoRequest
    /\ pc = NoRequests

NextAuth ==
    \/ \E header \in Headers, redisUp \in BOOLEAN : process_request(header, redisUp)
    \/ \E token \in AccessTokens, refresh \in RefreshStates, redisUp \in BOOLEAN :
          CustomLogoutView_post(token, refresh, redisUp)
    \/ Tick

SpecAuth == InitAuth /\ [][NextAuth]_vars

(* --------------------- claims about analyze_submission ----------------- *)

\* C13: every failure during analyze_submission on a graded submission is
\* returned as a result with an 'error' field, never raised, and an analysis
\* call leaves every answer row and the submission row unchanged.
C13_FailuresReturned ==
    [][(call'.op = "analyze_submission" /\ submissions[call'.sub].is_graded)
         => (/\ answers' = answers
             /\ submissions' = submissions
             /\ call'.fault # "none"
                  => (call'.outcome = "returned" /\ "error" \in DOMAIN call'.result))]_vars

\* C14: analyze_submission on a submission that is not graded returns
\* {'error': 'Submission must be graded first'}, does not raise, does not
\* call the external service and changes no row.
C14_UngradedRejected ==
    [][(call'.op = "analyze_submission" /\ ~submissions[call'.sub].is_graded)
         => (/\ call'.outcome = "returned"
             /\ call'.result = [error |-> "Submission must be graded first"]
             /\ ~call'.external
             /\ answers' = answers
             /\ submissions' = submissions)]_vars

\* C14 witness: an analysis was asked for an ungraded submission that has
\* answers, while the external service was failing.
C14_Witness ==
    /\ call.op = "analyze_submission"
    /\ ~submissions[call.sub].is_graded
    /\ call.fault = "network"
    /\ AnswersOf(answers, call.sub) # <<>>

(* ------------------------ claims about visibility ---------------------- *)

\* C15: the submissions served to a student by list, retrieve and results
\* are submissions of that student.
C15_OwnSubmissionsOnly ==
    (/\ response.op \in {"submission_list", "submission_retrieve", "submission_results"}
     /\ response.user \in Students)
    => \A s \in response.rows : submissions[s].student = response.user

\* C15 witness: a student was served a submission while a submission of
\* another student is stored.
C15_Witness ==
    /\ response.op = "submission_list"
    /\ response.user \in Students
    /\ response.rows # {}
    /\ \E s \in DOMAIN submissions : submissions[s].student # response.user

\* C16: the exams served to a student by list, retrieve and start are
\* published and belong to a course in which the student has an enrollment
\* with status 'active'.
C16_PublishedEnrolledOnly ==
    (/\ response.op \in {"exam_list", "exam_retrieve", "exam_start"}
     /\ response.user \in Students)
    => \A e \in response.rows :
          /\ exams[e].is_published
          /\ <<response.user, exams[e].course, "active">> \in enrollments

\* C16 witness: a student started a published exam of a course in which
\* another student's enrollment is dropped.
C16_Witness ==
    /\ response.op = "exam_start"
    /\ response.user \in Students
    /\ response.rows # {}
    /\ \E u \in Students : \E c \in CourseIds : <<u, c, "dropped">> \in enrollments

(* ------------------ claims about courses, exams, enrollment ------------ *)

TeacherOnlyOps == {"course_create", "course_update", "course_destroy",
                   "exam_create", "exam_update", "exam_destroy"}

StoredExams(ex) == {e \in ExamIds : ~Absent(ex[e])}

\* C17: a create, update or delete request for a course or an exam sent by
\* a student is answered 403 and changes no row; a teacher's create request
\* for a course code not yet used, or for an exam of a stored course, is
\* answered 201 and adds exactly that row.
C17_TeachersOnly ==
    [][/\ (response'.op \in TeacherOnlyOps /\ response'.user \in Students)
           => (/\ response'.status = 403
               /\ UNCHANGED <<courses, enrollments, exams, questions, submissions, answers>>)
       /\ (/\ response'.op = "course_create" /\ response'.user \in Teachers
           /\ response'.pk \notin courses)
           => (/\ response'.status = 201
               /\ courses' = courses \cup {response'.pk}
               /\ exams' = exams)
       /\ (/\ response'.op = "exam_create" /\ response'.user \in Teachers
           /\ response'.ref \in courses)
           => (/\ response'.status = 201
               /\ response'.pk \notin StoredExams(exams)
               /\ StoredExams(exams') = StoredExams(exams) \cup {response'.pk}
               /\ courses' = courses)]_vars

\* C17 witness: a student asked to delete a stored exam and was refused.
C17_Witness ==
    /\ response.op = "exam_destroy"
    /\ response.user \in Students
    /\ response.status = 403
    /\ response.pk \in StoredExams(exams)

\* C18: an enroll request of a user who is not a student is rejected with
\* 403 and creates no Enrollment.
C18_EnrollStudentsOnly ==
    [][(response'.op = "enroll" /\ response'.user \notin Students)
         => (response'.status = 403 /\ enrollments' = enrollments)]_vars

Revoked(t) == redis[_token_identifier_and_exp(t).key] > now

InitKeywords ==
    \E value \in KeywordValues :
        /\ courses = {"c1"}
        /\ enrollments = {}
        /\ exams = [e \in ExamIds |-> ExamRow("c1", TRUE, 1)]
        /\ questions = [q \in QIds |->
                          IF q = "q1" THEN QuestionRow("e1", 1, <<k1>>, QuestionExpected)
                          ELSE NoRow]
        /\ submissions = <<>>
        /\ answers = <<>>
        /\ response = NoResponse
        /\ call = NoCall
        /\ redis = EmptyStore
        /\ now = 0
        /\ request = [op |-> "question_create", keywords |-> value]
        /\ pc = NoRequests

\* POST /questions/ with the body in flight, by any user.
NextKeywords ==
    \E u \in Actors, q \in QIds, marks \in 0..MaxMarks :
        CreateQuestion(u, q, "e1", marks, request.keywords)

SpecKeywords == InitKeywords /\ [][NextKeywords]_vars

\* C21: a question-create request of a teacher whose 'keywords' value is not
\* a list, or is a list with an entry that is not a string, is answered 400
\* (ValidationError), never 500, and the stored questions stay as they were.
C21_MalformedKeywordsRejected ==
    [][(/\ response'.op = "question_create"
        /\ response'.user \in Teachers
        /\ \/ request.keywords[1] # "list"
           \/ \E i \in DOMAIN request.keywords[2] : request.keywords[2][i][1] # "str")
       => (response'.status = 400 /\ questions' = questions)]_vars

\* C22: for every list of strings in flight, validate_keywords returns a
\* list that validate_keywords maps to itself, every entry of it non-empty,
\* without white space at either end and without an upper-case letter; the
\* question the request creates stores that list.
C22_NormalizationIdempotent ==
    (/\ request.op = "question_create"
     /\ request.keywords[1] = "list"
     /\ \A i \in DOMAIN request.keywords[2] : request.keywords[2][i][1] = "str")
    => LET ks == validate_keywords(request.keywords)
       IN  /\ ks.raised = "none"
           /\ validate_keywords(ListOfStrings(ks.value)) = ks
           /\ \A i \in DOMAIN ks.value :
                /\ ks.value[i] # <<>>
                /\ ks.value[i][1] # " "
                /\ ks.value[i][Len(ks.value[i])] # " "
                /\ \A j \in DOMAIN ks.value[i] : ks.value[i][j] # "A"
           /\ ~Absent(questions["q2"]) => questions["q2"].keywords = ks.value

\* A question was created from a list with an entry of white space only and
\* an entry with surrounding white space and an upper-case letter.
C22_Witness ==
    /\ request.op = "question_create"
    /\ request.keywords = ListOfStrings(<<<<" ">>, <<"A", " ">>>>)
    /\ response = Reply("question_create", "t1", 201)
    /\ questions["q2"].keywords = <<k1>>

(* ------------------- the scorers applied to drawn inputs ---------------- *)

\* The sub-scores _generate_feedback is called with, in tenths: both sides
\* of each threshold and the thresholds themselves.
ScoreGrid == {<<0, 10>>, <<4, 10>>, <<5, 10>>, <<6, 10>>, <<7, 10>>, <<10, 10>>}

\* The arguments of one call are in flight: an answer text and a keyword
\* list for _calculate_keyword_similarity, or three sub-scores, a keyword
\* list and a text for _generate_feedback.
InitScorers ==
    /\ courses = {}
    /\ enrollments = {}
    /\ exams = [e \in ExamIds |-> NoRow]
    /\ questions = [q \in QIds |-> NoRow]
    /\ submissions = <<>>
    /\ answers = <<>>
    /\ response = NoResponse
    /\ call = NoCall
    /\ redis = EmptyStore
    /\ now = 0
    /\ pc = NoRequests
    /\ \/ \E text \in Texts, kws \in KeywordLists :
            request = [op |-> "_calculate_keyword_similarity",
                       user_doc |-> text, keywords |-> kws]
       \/ \E k, c, p \in ScoreGrid, kws \in KeywordLists, text \in SampleTexts :
            request = [op |-> "_generate_feedback", keyword_score |-> k,
                       content_score |-> c, completeness_score |-> p,
                       keywords |-> kws, user_doc |-> text]

\* self._calculate_keyword_similarity(user_doc, keywords) returns.
CalculateKeywordSimilarity ==
    /\ request.op = "_calculate_keyword_similarity"
    /\ call' = [op |-> "_calculate_keyword_similarity",
                value |-> _calculate_keyword_similarity(request.user_doc, request.keywords)]
    /\ UNCHANGED <<courses, enrollments, exams, questions, submissions, answers,
                   response, redis, now, request, pc>>

\* self._generate_feedback(...) returns.
GenerateFeedback ==
    /\ request.op = "_generate_feedback"
    /\ call' = [op |-> "_generate_feedback",
                value |-> _generate_feedback(request.keyword_score, request.content_score,
                                             request.completeness_score, request.keywords,
                                             request.user_doc)]
    /\ UNCHANGED <<courses, enrollments, exams, questions, submissions, answers,
                   response, redis, now, request, pc>>

NextScorers == CalculateKeywordSimilarity \/ GenerateFeedback

SpecScorers == InitScorers /\ [][NextScorers]_vars

\* A keyword counts as matched when the text's similarity to it reaches the
\* threshold, or a token of the text has its lemma or contains it.
Matched(text, kw) == text.sim[kw] >= 6 \/ text.hits[kw] > 0

\* The similarity a matched keyword contributes, in tenths.
MatchedSimilarity(text, kw) == IF text.sim[kw] >= 6 THEN text.sim[kw] ELSE 8

\* C23: the score returned for a non-empty keyword list is the average of
\* the match rate (matched keywords / keyword count) and the mean similarity
\* over the matched keywords only (0 when nothing matched), each keyword
\* counted at most once; for an empty list it is 0.7.
C23_CoverageScore ==
    call.op = "_calculate_keyword_similarity" =>
        LET text == request.user_doc
            kws == request.keywords
            n == Len(kws)
            hit == {i \in DOMAIN kws : Matched(text, kws[i])}
            m == Cardinality(hit)
            t == SumSeq([i \in DOMAIN kws |->
                           IF i \in hit THEN MatchedSimilarity(text, kws[i]) ELSE 0])
            expected == IF n = 0 THEN <<7, 10>>
                        ELSE IF m = 0 THEN <<0, 1>>
                        ELSE <<10 * m * m + t * n, 20 * n * m>>
        IN  call.value[1] * expected[2] = expected[1] * call.value[2]

OverallSentences ==
    {<<"Excellent answer!">>, <<"Good answer with room for improvement.">>,
     <<"Answer needs more development.">>}

\* C24: besides the overall sentence and the "Consider including" hint, the
\* feedback holds exactly one sentence for each of the coverage, content and
\* completeness sub-scores, in that order, chosen by the sub-score's bucket
\* (>= 0.7, 0.5 <= score < 0.7, < 0.5).
C24_OneSentencePerSubScore ==
    call.op = "_generate_feedback" =>
        LET subs == SelectSeq(call.value,
                              LAMBDA x : x \notin OverallSentences
                                         /\ x[1] # "Consider including:")
            k == request.keyword_score
            c == request.content_score
            p == request.completeness_score
        IN  /\ Len(subs) = 3
            /\ subs[1] = IF k[1] * 10 >= 7 * k[2]
                         THEN <<"You covered the key concepts well.">>
                         ELSE IF k[1] * 10 >= 5 * k[2]
                         THEN <<"You addressed some key concepts but missed others.">>
                         ELSE <<"Important concepts are missing from your answer.">>
            /\ c[1] * 10 >= 7 * c[2]
                 => subs[2] = <<"Your answer aligns well with the expected response.">>
            /\ c[1] * 10 < 5 * c[2]
                 => subs[2] = <<"Your answer differs significantly from the expected response.">>
            /\ p[1] * 10 >= 7 * p[2]
                 => subs[3] = <<"Answer is well-detailed and complete.">>
            /\ p[1] * 10 < 5 * p[2]
                 => subs[3] = <<"Answer lacks sufficient detail and completeness.">>

(* ------------------- submit_exam: concurrent requests ------------------ *)

\* Two submit_exam requests are served at the same time, each in its own
\* transaction (@transaction.atomic): a request reads the rows that are
\* committed (the variable submissions), the row it has inserted is its own
\* until it commits.  pc[r] is where request r stands: at "start", past the
\* duplicate check ("checked"), past the INSERT ("created"), answered ("done").
Requests == {"r1", "r2"}

\* The body both requests send: answers with question_id and answer_text,
\* the stored exam's id.
RaceShape == "both"
RaceExam == <<"int", "e1">>

RaceReply(u, status, msg) == SubmitReply(u, status, msg, RaceShape, RaceExam, "yes", "-")

\* The request is answered.
Answered(r, reply) == [pc EXCEPT ![r].at = "done", ![r].reply = reply]

\* Lines 58-94 of request r: validation, exam lookup, is_active, enrollment
\* and the duplicate check, which sees committed Submission rows only.
CheckSubmission(r) ==
    /\ pc[r].at = "start"
    /\ LET u == pc[r].user
           e == RaceExam[2]
           early == IF ~IsStudent(u) THEN RaceReply(u, 403, "permission")
                    ELSE IF ~(validate_answers(RaceShape) /\ ExamFieldValid(RaceExam))
                    THEN RaceReply(u, 400, "validation")
                    ELSE IF Absent(exams[e]) \/ ~exams[e].is_published
                    THEN RaceReply(u, 404, "exam_not_found")
                    ELSE IF ~ActivelyEnrolled(u, exams[e].course)
                    THEN RaceReply(u, 403, "not_enrolled")
                    ELSE IF SubmissionExists(submissions, u, e)
                    THEN RaceReply(u, 400, "already_submitted")
                    ELSE NoResponse
       IN  IF early # NoResponse
           THEN /\ response' = early
                /\ pc' = Answered(r, early)
           ELSE /\ pc' = [pc EXCEPT ![r].at = "checked"]
                /\ UNCHANGED response
    /\ UNCHANGED <<courses, enrollments, exams, questions, submissions, answers,
                   call, redis, now, request>>

\* Lines 97-103 of request r: Submission.objects.create.  The INSERT waits
\* while another transaction holds an uncommitted row with the same
\* (student, exam); against a committed one unique_together makes it raise
\* IntegrityError, which nothing catches: the transaction rolls back, 500.
CreateSubmission(r) ==
    /\ pc[r].at = "checked"
    /\ ~\E o \in Requests \ {r} : pc[o].at = "created" /\ pc[o].user = pc[r].user
    /\ LET u == pc[r].user
       IN  IF \E i \in DOMAIN submissions :
                 submissions[i].student = u /\ submissions[i].exam = RaceExam[2]
           THEN /\ response' = RaceReply(u, 500, "integrity_error")
                /\ pc' = Answered(r, response')
           ELSE /\ pc' = [pc EXCEPT ![r].at = "created"]
                /\ UNCHANGED response
    /\ UNCHANGED <<courses, enrollments, exams, questions, submissions, answers,
                   call, redis, now, request>>

\* Lines 105-158 of request r, and the end of its transaction.
CompleteSubmission(r) ==
    /\ pc[r].at = "created"
    /\ LET u == pc[r].user
           e == RaceExam[2]
       IN  StoreAnswers(u, e, RaceShape, RaceExam,
                        Append(submissions,
                               NewSubmission(u, e, 100 * exams[e].total_marks)))
    /\ pc' = Answered(r, response')

\* A published exam with its two questions; the students who send the two
\* requests and the students enrolled in the course are drawn.
InitRace ==
    \E users \in [Requests -> Students], enrolled \in SUBSET Students,
       m1, m2 \in 1..MaxMarks :
        /\ courses = {"c1"}
        /\ enrollments = {<<u, "c1", "active">> : u \in enrolled}
        /\ exams = [e \in ExamIds |-> ExamRow("c1", TRUE, m1 + m2)]
        /\ questions = [q \in QIds |->
                          QuestionRow("e1", IF q = "q1" THEN m1 ELSE m2, <<k1, k2>>,
                                      QuestionExpected)]
        /\ submissions = <<>>
        /\ answers = <<>>
        /\ response = NoResponse
        /\ call = NoCall
        /\ redis = EmptyStore
        /\ now = 0
        /\ request = NoRequest
        /\ pc = [r \in Requests |-> [at |-> "start", user |-> users[r], reply |-> NoResponse]]

NextRace ==
    \E r \in Requests :
        \/ CheckSubmission(r)
        \/ CreateSubmission(r)
        \/ CompleteSubmission(r)

SpecRace == InitRace /\ [][NextRace]_vars

\* The requests of student u that are answered otherwise than with the 400
\* 'You have already submitted this exam'.
NotTurnedAway(u) ==
    {r \in DOMAIN pc : /\ pc[r].user = u
                       /\ pc[r].at = "done"
                       /\ ~(pc[r].reply.status = 400 /\ pc[r].reply.msg = "already_submitted")}

\* C25: under every interleaving of the requests of one enrolled student for
\* one open exam at most one Submission of that student and exam is persisted, at most one
\* request graded its answers, and every other request is answered with the
\* 400 'already submitted' response.
C25_OneSubmissionOthersTurnedAway ==
    \A u \in {x \in Students : <<x, "c1", "active">> \in enrollments} :
        /\ Cardinality({i \in DOMAIN submissions :
                          submissions[i].student = u /\ submissions[i].exam = "e1"}) <= 1
        /\ Cardinality({r \in DOMAIN pc :
                          /\ pc[r].user = u
                          /\ pc[r].at = "done"
                          /\ pc[r].reply.msg \in {"submitted", "grading_error"}}) <= 1
        /\ Cardinality(NotTurnedAway(u)) <= 1

====
